---- MODULE Spec2Model ----
(***************************************************************************)
(* Model of zerver/lib/onboarding.py: the Welcome Bot responder, the       *)
(* initial direct message, the seeding of a new organization's channels    *)
(* and the provisioning check of the realm-internal bots.                  *)
(*                                                                         *)
(* Strings are sequences of tokens.  A token is a piece of text that the   *)
(* code never looks inside; the newline, the list markers and the format   *)
(* placeholders are tokens of their own, and the text a user types to the  *)
(* bot is tokenised per character, so that lower(), format() and           *)
(* remove_single_newlines() are computed and not assumed.  Texts are the   *)
(* source-language msgids (gettext without a translation catalogue), in    *)
(* ASCII: the typographic quotes and the emoji of the source are written   *)
(* as ' and " and :wave:.                                                  *)
(***************************************************************************)
EXTENDS Integers, Sequences, FiniteSets, TLC

VARIABLES
    realms,                    \* Realm table: realm id -> its fields
    users,                     \* UserProfile table: set of rows
    realm_internal_bots,       \* settings.REALM_INTERNAL_BOTS (the bots' emails)
    last_repair,               \* whether the last operation was a repair, and the realms it set up
    messages,                  \* Message table, in insertion order
    next_message_id,           \* the id sequence of the Message table
    onboarding_user_messages,  \* OnboardingUserMessage table, in insertion order
    reactions,                 \* Reaction table
    typed,                     \* the text a user is typing to Welcome Bot
    send_request,              \* the SendMessageRequest of a direct message to the bot
    response,                  \* the last call of select_welcome_bot_response
    pc,                        \* position of send_initial_realm_messages
    txn                        \* its locals and its transaction

vars == <<realms, users, realm_internal_bots, last_repair, messages,
          next_message_id, onboarding_user_messages, reactions, typed,
          send_request, response, pc, txn>>

\* Python's None; every value that may be None is a record
None == [none |-> TRUE]

NoRepair == [ran |-> FALSE, invoked |-> {}]

\* ------------------------------------------------------------------ bounds

MaxUpper == 1            \* upper-case letters in a typed text
MaxDirectMessages == 1   \* direct messages Welcome Bot sends in a run
MaxSeedCalls == 2        \* calls of send_initial_realm_messages in a run

\* ----------------------------------------------------------------- strings

NL == "\n"

\* the backquote character, which a TLA+ string cannot hold
Backtick == "BACKTICK"

RECURSIVE Concat(_)
Concat(ss) == IF ss = <<>> THEN <<>> ELSE Head(ss) \o Concat(Tail(ss))

Contains(s, tok) == \E i \in 1..Len(s) : s[i] = tok

\* str.format: every placeholder token named in args is replaced by its value.
Format(template, args) ==
    Concat([i \in 1..Len(template) |->
        IF template[i] \in DOMAIN args THEN args[template[i]] ELSE <<template[i]>>])

UpperCase == <<"A", "B", "C", "D", "E", "F", "G", "H", "I", "J", "K", "L", "M",
               "N", "O", "P", "Q", "R", "S", "T", "U", "V", "W", "X", "Y", "Z">>
LowerCase == <<"a", "b", "c", "d", "e", "f", "g", "h", "i", "j", "k", "l", "m",
               "n", "o", "p", "q", "r", "s", "t", "u", "v", "w", "x", "y", "z">>

IsUpper(c) == \E k \in 1..Len(UpperCase) : UpperCase[k] = c
IsLower(c) == \E k \in 1..Len(LowerCase) : LowerCase[k] = c

LowerChar(c) ==
    IF IsUpper(c) THEN LowerCase[CHOOSE k \in 1..Len(UpperCase) : UpperCase[k] = c] ELSE c

UpperChar(c) ==
    IF IsLower(c) THEN UpperCase[CHOOSE k \in 1..Len(LowerCase) : LowerCase[k] = c] ELSE c

\* str.lower of a text typed character by character
Lower(s) == [i \in 1..Len(s) |-> LowerChar(s[i])]

\* Markdown list markers, the lookahead of remove_single_newlines
ListMarkers == {"- ", "* ", "1. "}

RECURSIVE StripLeft(_)
StripLeft(s) == IF s # <<>> /\ Head(s) = NL THEN StripLeft(Tail(s)) ELSE s

RECURSIVE StripRight(_)
StripRight(s) ==
    IF s # <<>> /\ s[Len(s)] = NL THEN StripRight(SubSeq(s, 1, Len(s) - 1)) ELSE s

\* zerver.lib.message.remove_single_newlines: the newlines at both ends are
\* stripped, and a newline that stands alone (no newline before it, neither a
\* newline nor a list marker after it) becomes a space.
remove_single_newlines(content) ==
    LET s == StripRight(StripLeft(content))
    IN  [i \in 1..Len(s) |->
            IF /\ s[i] = NL
               /\ (i = 1 \/ s[i - 1] # NL)
               /\ ~(i < Len(s) /\ (s[i + 1] = NL \/ s[i + 1] \in ListMarkers))
            THEN " "
            ELSE s[i]]

\* ------------------------------------------------------- welcome bot texts

\* bot_commands: the command list
BotCommandList(no_help_command) ==
    <<  <<"a", "p", "p", "s">>,
        <<"p", "r", "o", "f", "i", "l", "e">>,
        <<"t", "h", "e", "m", "e">>,
        <<"c", "h", "a", "n", "n", "e", "l", "s">>,
        <<"t", "o", "p", "i", "c", "s">>,
        <<"m", "e", "s", "s", "a", "g", "e", " ", "f", "o", "r", "m", "a", "t", "t", "i", "n", "g">>,
        <<"k", "e", "y", "b", "o", "a", "r", "d", " ", "s", "h", "o", "r", "t", "c", "u", "t", "s">> >>
    \o (IF ~no_help_command THEN << <<"h", "e", "l", "p">> >> ELSE <<>>)

\* ", ".join(Backtick + command + Backtick for command in commands) + "."
bot_commands(no_help_command) ==
    LET commands == BotCommandList(no_help_command)
    IN  Concat([i \in 1..Len(commands) |->
            (IF i > 1 THEN <<", ">> ELSE <<>>) \o <<Backtick>> \o commands[i] \o <<Backtick>>])
        \o <<".">>

AppsText ==
    <<NL, "You can [download](/apps/) the [mobile and desktop apps](/apps/).",
      NL, "Zulip also works great in a browser.", NL>>

ProfileText ==
    <<NL, "Go to [Profile settings](#settings/profile) to add a [profile picture](/help/change-your-profile-picture)",
      NL, "and edit your [profile information](/help/edit-your-profile).", NL>>

ThemeText ==
    <<NL, "Go to [Preferences](#settings/preferences) to [switch between the light and dark themes](/help/dark-theme),",
      NL, "[pick your favorite emoji theme](/help/emoji-and-emoticons#change-your-emoji-set),",
      NL, "[change your language](/help/change-your-language), and make other tweaks",
      NL, "to your Zulip experience.", NL>>

ChannelsText ==
    Format(<<NL, "In Zulip, channels [determine who gets a message](", "{help_link}", ").",
             NL, NL, "[Browse and subscribe to channels](", "{settings_link}", ").", NL>>,
           ("{help_link}" :> <<"/help/introduction-to-channels">>)
           @@ ("{settings_link}" :> <<"#channels/all">>))

TopicsText ==
    <<NL, "In Zulip, topics [tell you what a message is about](/help/introduction-to-topics).",
      NL, "They are light-weight subjects, very similar to the subject line of an email.",
      NL, NL, "Check out [Recent conversations](#recent) to see what's happening!",
      NL, "You can return to this conversation by clicking 'Direct messages' in the upper left.", NL>>

KeyboardText ==
    <<NL, "Zulip's [keyboard shortcuts](#keyboard-shortcuts) let you navigate the app",
      NL, "quickly and efficiently.",
      NL, NL, "Press ", Backtick, "?", Backtick, " any time to see a [cheat sheet](#keyboard-shortcuts).", NL>>

FormattingText ==
    <<NL, "Zulip uses [Markdown](/help/format-your-message-using-markdown),",
      NL, "an intuitive format for **bold**, *italics*, bulleted lists, and more.",
      NL, "Click [here](#message-formatting) for a cheat sheet.",
      NL, NL, "Check out our [messaging tips](/help/messaging-tips) to learn",
      NL, "about emoji reactions, code blocks and much more!", NL>>

HelpText ==
    Format(<<NL, "Here are a few messages I understand: ", "{bot_commands}",
             NL, NL, "Check out our [Getting started guide](/help/getting-started-with-zulip),",
             NL, "or browse the [Help center](/help/) to learn more!", NL>>,
           "{bot_commands}" :> bot_commands(TRUE))

FallbackText ==
    Format(<<NL, "I'm sorry, I did not understand your message. Please try",
             NL, "one of the following commands: ", "{bot_commands}", NL>>,
           "{bot_commands}" :> bot_commands(FALSE))

\* The keyword groups of select_welcome_bot_response, in the order of its branches.
AppsKeywords == { <<"a", "p", "p">>, <<"a", "p", "p", "s">> }
ProfileKeywords == { <<"p", "r", "o", "f", "i", "l", "e">> }
ThemeKeywords == { <<"t", "h", "e", "m", "e">> }
ChannelsKeywords ==
    { <<"s", "t", "r", "e", "a", "m">>, <<"s", "t", "r", "e", "a", "m", "s">>,
      <<"c", "h", "a", "n", "n", "e", "l">>, <<"c", "h", "a", "n", "n", "e", "l", "s">> }
TopicsKeywords == { <<"t", "o", "p", "i", "c">>, <<"t", "o", "p", "i", "c", "s">> }
KeyboardKeywords ==
    { <<"k", "e", "y", "b", "o", "a", "r", "d">>,
      <<"s", "h", "o", "r", "t", "c", "u", "t", "s">>,
      <<"k", "e", "y", "b", "o", "a", "r", "d", " ", "s", "h", "o", "r", "t", "c", "u", "t", "s">> }
FormattingKeywords ==
    { <<"f", "o", "r", "m", "a", "t", "t", "i", "n", "g">>,
      <<"m", "e", "s", "s", "a", "g", "e", " ", "f", "o", "r", "m", "a", "t", "t", "i", "n", "g">> }
HelpKeywords == { <<"h", "e", "l", "p">>, <<"?">> }

\* Faulty variant: the first branch compares with "apps" only.
select_welcome_bot_response_no_singular(human_response_lower) ==
    IF human_response_lower = <<"a", "p", "p", "s">> THEN AppsText
    ELSE IF human_response_lower \in ProfileKeywords THEN ProfileText
    ELSE IF human_response_lower \in ThemeKeywords THEN ThemeText
    ELSE IF human_response_lower \in ChannelsKeywords THEN ChannelsText
    ELSE IF human_response_lower \in TopicsKeywords THEN TopicsText
    ELSE IF human_response_lower \in KeyboardKeywords THEN KeyboardText
    ELSE IF human_response_lower \in FormattingKeywords THEN FormattingText
    ELSE IF human_response_lower \in HelpKeywords THEN HelpText
    ELSE FallbackText

select_welcome_bot_response(human_response_lower) ==
    IF human_response_lower \in AppsKeywords THEN AppsText
    ELSE IF human_response_lower \in ProfileKeywords THEN ProfileText
    ELSE IF human_response_lower \in ThemeKeywords THEN ThemeText
    ELSE IF human_response_lower \in ChannelsKeywords THEN ChannelsText
    ELSE IF human_response_lower \in TopicsKeywords THEN TopicsText
    ELSE IF human_response_lower \in KeyboardKeywords THEN KeyboardText
    ELSE IF human_response_lower \in FormattingKeywords THEN FormattingText
    ELSE IF human_response_lower \in HelpKeywords THEN HelpText
    ELSE FallbackText

\* ------------------------------------------------------------ the tables

RealmIds == {"r1", "r2"}

\* Realm.ORG_TYPES, by name (a sample holding both education categories)
OrgTypes == {"unspecified", "business", "education_nonprofit", "education"}

\* Realm.demo_organization_scheduled_deletion_date: None, or a date
DeletionDates == {None, [days |-> 30]}

\* UserProfile roles; is_realm_admin holds of owners and administrators
Roles == {"owner", "administrator", "member"}

is_realm_owner(user) == user.role = "owner"
is_realm_admin(user) == user.role \in {"owner", "administrator"}

WELCOME_BOT == "welcome-bot@zulip.com"

\* zerver.models.users.get_system_bot: the bot of that name serving that realm
get_system_bot(email, realm_id) == [email |-> email, realm |-> realm_id, role |-> "bot"]

DirectRecipient(user) == [type |-> "direct", to |-> user.email]
ChannelRecipient(channel_name) == [type |-> "channel", to |-> channel_name]

\* zerver.actions.message_send.internal_send_private_message: one Message row,
\* addressed sender -> recipient_user, with the next id of the table.
internal_send_private_message(sender, recipient_user, content, disable_external_notifications) ==
    [id |-> next_message_id,
     realm |-> sender.realm,
     sender |-> sender.email,
     recipient |-> DirectRecipient(recipient_user),
     topic |-> "",
     content |-> content,
     disable_external_notifications |-> disable_external_notifications]

HumanUsers == {u \in users : u.role # "bot"}

MessagesFrom(email) == {i \in 1..Len(messages) : messages[i].sender = email}

\* ------------------------------------------------- the welcome bot responder

\* What users type in the examples: the keywords, and texts that are none.
\* (The empty text is what the compose box holds after a message is sent.)
Words ==
    AppsKeywords \cup ProfileKeywords \cup ThemeKeywords \cup ChannelsKeywords
    \cup TopicsKeywords \cup KeyboardKeywords \cup FormattingKeywords \cup HelpKeywords
    \cup { <<"h", "i">>, <<"e", "m", "o", "j", "i">>,
           <<"k", "e", "y", "b", "o", "a", "r", "d", " ", "s", "h", "o", "r", "t", "c", "u", "t">>,
           <<"m", "e", "s", "s", "a", "g", "e">> }

TypedChars == {"s", "?"}

UpperCount(s) == Cardinality({i \in 1..Len(s) : IsUpper(s[i])})

\* The user holds shift for one letter of the text.
TypeUpper(i) ==
    /\ response = None /\ send_request = None
    /\ i \in 1..Len(typed)
    /\ IsLower(typed[i])
    /\ UpperCount(typed) < MaxUpper
    /\ typed' = [typed EXCEPT ![i] = UpperChar(typed[i])]
    /\ UNCHANGED <<realms, users, realm_internal_bots, last_repair, messages,
                   next_message_id, onboarding_user_messages, reactions,
                   send_request, response, pc, txn>>

\* The user types one more character after a word.
TypeChar(c) ==
    /\ response = None /\ send_request = None
    /\ Lower(typed) \in Words
    /\ typed' = Append(typed, c)
    /\ UNCHANGED <<realms, users, realm_internal_bots, last_repair, messages,
                   next_message_id, onboarding_user_messages, reactions,
                   send_request, response, pc, txn>>

\* A call of select_welcome_bot_response on the text as it stands.
SelectWelcomeBotResponse ==
    /\ response = None /\ send_request = None
    /\ response' = [human_response_lower |-> typed,
                    returned |-> select_welcome_bot_response(typed)]
    /\ UNCHANGED <<realms, users, realm_internal_bots, last_repair, messages,
                   next_message_id, onboarding_user_messages, reactions,
                   typed, send_request, pc, txn>>

\* The user sends the text to Welcome Bot as a direct message: the message is
\* stored and its SendMessageRequest reaches send_welcome_bot_response.
UserSendsDirectMessage(user) ==
    /\ send_request = None
    /\ Cardinality(MessagesFrom(WELCOME_BOT)) < MaxDirectMessages
    /\ LET message == internal_send_private_message(
                          user, get_system_bot(WELCOME_BOT, user.realm), typed, FALSE)
       IN  /\ messages' = Append(messages, message)
           /\ send_request' = [realm |-> user.realm, message |-> message, sender |-> user]
    /\ next_message_id' = next_message_id + 1
    /\ typed' = <<>>
    /\ response' = None
    /\ UNCHANGED <<realms, users, realm_internal_bots, last_repair,
                   onboarding_user_messages, reactions, pc, txn>>

\* Faulty variant: the content is not lower-cased before the selection.
WelcomeBotReplyNoLower(request) ==
    internal_send_private_message(
        get_system_bot(WELCOME_BOT, request.realm),
        request.sender,
        remove_single_newlines(select_welcome_bot_response(request.message.content)),
        TRUE)

\* The direct message send_welcome_bot_response sends for a request.
WelcomeBotReply(request) ==
    LET welcome_bot == get_system_bot(WELCOME_BOT, request.realm)
        human_response_lower == Lower(request.message.content)
        content == select_welcome_bot_response(human_response_lower)
    IN  internal_send_private_message(
            welcome_bot, request.sender, remove_single_newlines(content), TRUE)

send_welcome_bot_response ==
    /\ send_request # None
    /\ messages' = Append(messages, WelcomeBotReply(send_request))
    /\ next_message_id' = next_message_id + 1
    /\ send_request' = None
    /\ UNCHANGED <<realms, users, realm_internal_bots, last_repair,
                   onboarding_user_messages, reactions, typed, response, pc, txn>>

DefaultRealm == [org_type |-> "business", demo_organization_scheduled_deletion_date |-> None]

InitResponder ==
    /\ realms = [r \in {"r1"} |-> DefaultRealm]
    /\ users = {[realm |-> "r1", email |-> "iago@zulip.com", role |-> "owner"],
                [realm |-> "r1", email |-> "hamlet@zulip.com", role |-> "member"]}
    /\ realm_internal_bots = {}
    /\ last_repair = NoRepair
    /\ messages = <<>>
    /\ next_message_id = 1
    /\ onboarding_user_messages = <<>>
    /\ reactions = {}
    /\ typed \in Words
    /\ send_request = None
    /\ response = None
    /\ pc = "idle"
    /\ txn = None

NextResponder ==
    \/ \E i \in 1..Len(typed) : TypeUpper(i)
    \/ \E c \in TypedChars : TypeChar(c)
    \/ SelectWelcomeBotResponse
    \/ \E user \in HumanUsers : UserSendsDirectMessage(user)
    \/ send_welcome_bot_response

SpecResponder == InitResponder /\ [][NextResponder]_vars

\* C1: select_welcome_bot_response is total and returns, for an input in a
\* keyword group, exactly that group's canned text, and for every other input
\* (a keyword in another letter case included) the fallback text.
C1_SelectReturnsGroupText ==
    response # None =>
        LET s == response.human_response_lower
            r == response.returned
        IN  /\ s \in AppsKeywords => r = AppsText
            /\ s \in ProfileKeywords => r = ProfileText
            /\ s \in ThemeKeywords => r = ThemeText
            /\ s \in ChannelsKeywords => r = ChannelsText
            /\ s \in TopicsKeywords => r = TopicsText
            /\ s \in KeyboardKeywords => r = KeyboardText
            /\ s \in FormattingKeywords => r = FormattingText
            /\ s \in HelpKeywords => r = HelpText
            /\ s \notin (AppsKeywords \cup ProfileKeywords \cup ThemeKeywords
                         \cup ChannelsKeywords \cup TopicsKeywords \cup KeyboardKeywords
                         \cup FormattingKeywords \cup HelpKeywords) => r = FallbackText
            /\ Contains(FallbackText, "I'm sorry, I did not understand your message. Please try")
            /\ \A i \in 1..Len(BotCommandList(FALSE)) :
                   \A j \in 1..Len(BotCommandList(FALSE)[i]) :
                       Contains(FallbackText, BotCommandList(FALSE)[i][j])

\* A keyword typed as a singular ("app") got the group's text, and an input
\* that is a keyword only after lower-casing got the fallback.
C1_Witness ==
    /\ response # None
    /\ \/ response.human_response_lower = <<"a", "p", "p">> /\ response.returned = AppsText
       \/ /\ UpperCount(response.human_response_lower) > 0
          /\ Lower(response.human_response_lower) \in HelpKeywords
          /\ response.returned = FallbackText

\* The canned text the welcome bot owes to an advertised command
CannedTexts ==
    {AppsText, ProfileText, ThemeText, ChannelsText, TopicsText, KeyboardText,
     FormattingText, HelpText}

Advertised ==
    {BotCommandList(FALSE)[i] : i \in 1..Len(BotCommandList(FALSE))}
    \cup {BotCommandList(TRUE)[i] : i \in 1..Len(BotCommandList(TRUE))}

IsToBot(m) == m.recipient = DirectRecipient(get_system_bot(WELCOME_BOT, m.realm))

\* C10: every command bot_commands() lists gets a canned response that is not
\* the fallback; send_welcome_bot_response lower-cases the content first, so
\* the command in any letter case gets it too; and each request is answered by
\* exactly one direct message, from the bot to the request's sender, with
\* external notifications disabled.
C10_AdvertisedCommandsUnderstood ==
    /\ \A cmd \in Advertised :
           /\ select_welcome_bot_response(cmd) \in CannedTexts
           /\ select_welcome_bot_response(cmd) # FallbackText
    /\ \A i \in 1..Len(messages) :
           IF IsToBot(messages[i])
           THEN IF i = Len(messages)
                THEN send_request # None /\ send_request.message = messages[i]
                ELSE LET reply == messages[i + 1]
                         text == select_welcome_bot_response(Lower(messages[i].content))
                     IN  /\ reply.sender = WELCOME_BOT
                         /\ reply.realm = messages[i].realm
                         /\ reply.recipient = [type |-> "direct", to |-> messages[i].sender]
                         /\ reply.disable_external_notifications
                         /\ reply.content = remove_single_newlines(text)
                         /\ Lower(messages[i].content) \in Advertised =>
                                /\ text \in CannedTexts
                                /\ reply.content # remove_single_newlines(FallbackText)
           ELSE /\ messages[i].sender = WELCOME_BOT
                /\ i > 1
                /\ IsToBot(messages[i - 1])

\* Welcome Bot answered "Keyboard Shortcuts"-like input (an advertised command
\* with an upper-case letter) with the canned text.
C10_Witness ==
    \E i \in 1..Len(messages) :
        /\ i > 1
        /\ messages[i].sender = WELCOME_BOT
        /\ UpperCount(messages[i - 1].content) > 0
        /\ Lower(messages[i - 1].content) \in Advertised
        /\ messages[i].content \in {remove_single_newlines(t) : t \in CannedTexts}
        /\ messages[i].recipient.to = "hamlet@zulip.com"
        /\ send_request = None

\* ------------------------------------------------- the realm-internal bots

\* Emails settings.REALM_INTERNAL_BOTS may hold (email_template % INTERNAL_BOT_DOMAIN)
ConfigurableBots == {"reminder-bot@zulip.com", "nagios-receive-bot@zulip.com"}

missing_any_realm_internal_bots ==
    LET bot_emails == realm_internal_bots
        realm_count == Cardinality(DOMAIN realms)
        matching == {u \in users : u.email \in bot_emails}
        \* .values("email").annotate(count=Count("id")): one row per email found
        counts == [e \in {u.email : u \in matching} |->
                      Cardinality({u \in matching : u.email = e})]
    IN  Cardinality({e \in DOMAIN counts : counts[e] = realm_count})
            # Cardinality(bot_emails)

\* zerver.actions.create_realm.setup_realm_internal_bots: creates the
\* configured bots the realm does not have yet.
setup_realm_internal_bots(realm, user_table) ==
    user_table \cup
        {[realm |-> realm, email |-> e, role |-> "bot"] :
            e \in {b \in realm_internal_bots :
                      ~\E u \in user_table : u.realm = realm /\ u.email = b}}

RECURSIVE SetupAll(_, _)
SetupAll(realm_set, user_table) ==
    IF realm_set = {} THEN user_table
    ELSE LET realm == CHOOSE r \in realm_set : TRUE
         IN  SetupAll(realm_set \ {realm}, setup_realm_internal_bots(realm, user_table))

\* Faulty variant: the repair runs without asking whether a bot is missing.
RepairAlways ==
    /\ users' = SetupAll(DOMAIN realms, users)
    /\ last_repair' = [ran |-> TRUE, invoked |-> DOMAIN realms]
    /\ UNCHANGED <<realms, realm_internal_bots, messages, next_message_id,
                   onboarding_user_messages, reactions, typed, send_request,
                   response, pc, txn>>

create_if_missing_realm_internal_bots ==
    /\ IF missing_any_realm_internal_bots
       THEN /\ users' = SetupAll(DOMAIN realms, users)
            /\ last_repair' = [ran |-> TRUE, invoked |-> DOMAIN realms]
       ELSE /\ users' = users
            /\ last_repair' = [ran |-> TRUE, invoked |-> {}]
    /\ UNCHANGED <<realms, realm_internal_bots, messages, next_message_id,
                   onboarding_user_messages, reactions, typed, send_request,
                   response, pc, txn>>

\* Realm creation: the realm row, and the realm's internal bots.
do_create_realm(realm, org_type, deletion_date) ==
    /\ realm \notin DOMAIN realms
    /\ realms' = [r \in DOMAIN realms \cup {realm} |->
                    IF r = realm
                    THEN [org_type |-> org_type,
                          demo_organization_scheduled_deletion_date |-> deletion_date]
                    ELSE realms[r]]
    /\ users' = setup_realm_internal_bots(realm, users)
    /\ last_repair' = NoRepair
    /\ UNCHANGED <<realm_internal_bots, messages, next_message_id,
                   onboarding_user_messages, reactions, typed, send_request,
                   response, pc, txn>>

\* A bot account is removed (a realm's bot deleted by hand).
DeleteBot(user) ==
    /\ user \in users
    /\ user.role = "bot"
    /\ users' = users \ {user}
    /\ last_repair' = NoRepair
    /\ UNCHANGED <<realms, realm_internal_bots, messages, next_message_id,
                   onboarding_user_messages, reactions, typed, send_request,
                   response, pc, txn>>

InitBots ==
    /\ \E ids \in SUBSET RealmIds : realms = [r \in ids |-> DefaultRealm]
    /\ realm_internal_bots \in SUBSET ConfigurableBots
    /\ users \in SUBSET {[realm |-> r, email |-> e, role |-> "bot"] :
                            r \in DOMAIN realms, e \in ConfigurableBots}
    /\ last_repair = NoRepair
    /\ messages = <<>>
    /\ next_message_id = 1
    /\ onboarding_user_messages = <<>>
    /\ reactions = {}
    /\ typed = <<>>
    /\ send_request = None
    /\ response = None
    /\ pc = "idle"
    /\ txn = None

NextBots ==
    \/ create_if_missing_realm_internal_bots
    \/ \E r \in RealmIds, t \in {"business", "education"}, d \in DeletionDates :
           do_create_realm(r, t, d)
    \/ \E u \in users : DeleteBot(u)

SpecBots == InitBots /\ [][NextBots]_vars

AllBotsPresent ==
    \A r \in DOMAIN realms : \A e \in realm_internal_bots :
        \E u \in users : u.realm = r /\ u.email = e

\* What a call of create_if_missing_realm_internal_bots leaves in the table
UsersAfterRepair ==
    IF missing_any_realm_internal_bots THEN SetupAll(DOMAIN realms, users) ELSE users

\* C4: after create_if_missing_realm_internal_bots has run, for any number of
\* organizations (zero included), missing_any_realm_internal_bots is False.
C4_NoneMissingAfterRepair ==
    [][create_if_missing_realm_internal_bots => ~missing_any_realm_internal_bots']_vars

\* C5: when every organization has every configured bot, a call invokes no bot
\* creation and leaves the accounts as they are; and a second call right after
\* a call leaves what the first one left.
C5_RepairIdempotent ==
    [][create_if_missing_realm_internal_bots =>
          /\ (AllBotsPresent /\ DOMAIN realms # {}) =>
                 (users' = users /\ last_repair' = [ran |-> TRUE, invoked |-> {}])
          /\ AllBotsPresent => users' = users
          /\ UsersAfterRepair' = users'
      ]_vars

\* A repair ran that found every bot of two organizations present and invoked
\* no bot creation.
C5_Witness ==
    /\ last_repair = [ran |-> TRUE, invoked |-> {}]
    /\ Cardinality(DOMAIN realms) = 2
    /\ realm_internal_bots = ConfigurableBots
    /\ AllBotsPresent

\* ------------------------------------------------ the initial direct message

\* Faulty variant: education_nonprofit is not taken for an education type.
education_organization_one_category(user) ==
    realms[user.realm].org_type = "education"

education_organization(user) ==
    realms[user.realm].org_type \in {"education_nonprofit", "education"}

getting_started_string(user) ==
    IF education_organization(user)
    THEN Format(<<NL, "If you are new to Zulip, check out our [Using Zulip for a class guide](",
                  "{getting_started_url}", ")!", NL>>,
                "{getting_started_url}" :> <<"/help/using-zulip-for-a-class">>)
    ELSE Format(<<NL, "If you are new to Zulip, check out our [Getting started guide](",
                  "{getting_started_url}", ")!", NL>>,
                "{getting_started_url}" :> <<"/help/getting-started-with-zulip">>)

\* Extra content on setting up a new organization, for administrators
organization_setup_string(user) ==
    IF is_realm_admin(user)
    THEN IF education_organization(user)
         THEN Format(<<NL, "We also have a guide for [Setting up Zulip for a class](",
                       "{organization_setup_url}", ").", NL>>,
                     "{organization_setup_url}" :> <<"/help/setting-up-zulip-for-a-class">>)
         ELSE Format(<<NL, "We also have a guide for [Setting up your organization](",
                       "{organization_setup_url}", ").", NL>>,
                     "{organization_setup_url}" :>
                         <<"/help/getting-your-organization-started-with-zulip">>)
    ELSE <<>>

\* Extra content about automatic deletion, for demo organization owners
demo_organization_warning_string(user) ==
    IF /\ is_realm_owner(user)
       /\ realms[user.realm].demo_organization_scheduled_deletion_date # None
    THEN Format(<<NL, "Note that this is a [demo organization](",
                  "{demo_organization_help_url}", ") and",
                  NL, "will be **automatically deleted** in 30 days.", NL>>,
                "{demo_organization_help_url}" :> <<"/help/demo-organizations">>)
    ELSE <<>>

InitialDirectMessageContent(user) ==
    Format(<<NL, "Hello, and welcome to Zulip!:wave: This is a direct message from me, Welcome Bot.",
             NL, NL, "{getting_started_text}", " ", "{organization_setup_text}",
             NL, NL, "{demo_organization_text}",
             NL, NL, "I can also help you get set up! Just click anywhere on this message or press ",
             Backtick, "r", Backtick, " to reply.",
             NL, NL, "Here are a few messages I understand: ", "{bot_commands}", NL>>,
           ("{getting_started_text}" :> getting_started_string(user))
           @@ ("{organization_setup_text}" :> organization_setup_string(user))
           @@ ("{demo_organization_text}" :> demo_organization_warning_string(user))
           @@ ("{bot_commands}" :> bot_commands(FALSE)))

send_initial_direct_message(user) ==
    /\ user \in HumanUsers
    /\ Cardinality(MessagesFrom(WELCOME_BOT)) < MaxDirectMessages
    /\ messages' = Append(messages,
           internal_send_private_message(
               get_system_bot(WELCOME_BOT, user.realm),
               user,
               remove_single_newlines(InitialDirectMessageContent(user)),
               TRUE))
    /\ next_message_id' = next_message_id + 1
    /\ UNCHANGED <<realms, users, realm_internal_bots, last_repair,
                   onboarding_user_messages, reactions, typed, send_request,
                   response, pc, txn>>

\* An administrator changes a user's role; the messages sent stay as sent.
do_change_user_role(user, role) ==
    /\ user \in HumanUsers
    /\ role # user.role
    /\ users' = (users \ {user}) \cup {[user EXCEPT !.role = role]}
    /\ UNCHANGED <<realms, realm_internal_bots, last_repair, messages,
                   next_message_id, onboarding_user_messages, reactions, typed,
                   send_request, response, pc, txn>>

InitDirect ==
    /\ \E t \in OrgTypes, d \in DeletionDates :
           realms = [r \in {"r1"} |->
                        [org_type |-> t, demo_organization_scheduled_deletion_date |-> d]]
    /\ \E role \in Roles :
           users = {[realm |-> "r1", email |-> "iago@zulip.com", role |-> "owner"],
                    [realm |-> "r1", email |-> "hamlet@zulip.com", role |-> role]}
    /\ realm_internal_bots = {}
    /\ last_repair = NoRepair
    /\ messages = <<>>
    /\ next_message_id = 1
    /\ onboarding_user_messages = <<>>
    /\ reactions = {}
    /\ typed = <<>>
    /\ send_request = None
    /\ response = None
    /\ pc = "idle"
    /\ txn = None

NextDirect ==
    \/ \E user \in users : send_initial_direct_message(user)
    \/ \E user \in users, role \in Roles : do_change_user_role(user, role)

SpecDirect == InitDirect /\ [][NextDirect]_vars

UserOf(message) ==
    CHOOSE u \in users : u.realm = message.realm /\ u.email = message.recipient.to

\* C6: the initial direct message holds the education links (the class guide,
\* and for administrators the set-up-for-a-class guide) exactly when the
\* organization's type is education or education_nonprofit, and the general
\* links otherwise; and it holds the demo-deletion warning exactly when the
\* recipient is an owner and the organization has a scheduled deletion date.
C6_DirectMessageLinks ==
    [][\A user \in users : send_initial_direct_message(user) =>
          LET sent == messages'[Len(messages')]
              c == sent.content
              org == realms[user.realm]
              edu == org.org_type \in {"education", "education_nonprofit"}
          IN  /\ Len(messages') = Len(messages) + 1
              /\ sent.sender = WELCOME_BOT
              /\ sent.recipient = [type |-> "direct", to |-> user.email]
              /\ sent.disable_external_notifications
              /\ Contains(c, "/help/using-zulip-for-a-class") <=> edu
              /\ Contains(c, "/help/getting-started-with-zulip") <=> ~edu
              /\ Contains(c, "/help/setting-up-zulip-for-a-class")
                     <=> (edu /\ is_realm_admin(user))
              /\ Contains(c, "/help/getting-your-organization-started-with-zulip")
                     <=> (~edu /\ is_realm_admin(user))
              /\ Contains(c, "/help/demo-organizations")
                     <=> (is_realm_owner(user)
                          /\ org.demo_organization_scheduled_deletion_date # None)
              /\ Contains(c, "will be **automatically deleted** in 30 days.")
                     <=> Contains(c, "/help/demo-organizations")
      ]_vars

\* The owner of an education_nonprofit demo organization got the message with
\* both class guides and the deletion warning.
C6_Witness ==
    \E i \in 1..Len(messages) :
        /\ messages[i].sender = WELCOME_BOT
        /\ realms[messages[i].realm].org_type = "education_nonprofit"
        /\ realms[messages[i].realm].demo_organization_scheduled_deletion_date # None
        /\ is_realm_owner(UserOf(messages[i]))
        /\ Contains(messages[i].content, "/help/setting-up-zulip-for-a-class")
        /\ Contains(messages[i].content, "/help/demo-organizations")

\* ------------------------------------------- the initial channel messages

\* Realm.ZULIP_DISCUSSION_CHANNEL_NAME, Realm.ZULIP_SANDBOX_CHANNEL_NAME and
\* Realm.DEFAULT_NOTIFICATION_STREAM_NAME
ZULIP_DISCUSSION_CHANNEL_NAME == "Zulip"
ZULIP_SANDBOX_CHANNEL_NAME == "sandbox"
DEFAULT_NOTIFICATION_STREAM_NAME == "general"

\* The channels realm creation makes
DefaultChannels ==
    {ZULIP_DISCUSSION_CHANNEL_NAME, ZULIP_SANDBOX_CHANNEL_NAME,
     DEFAULT_NOTIFICATION_STREAM_NAME}

content1_of_moving_messages_topic_name ==
    Format(<<NL, "If anything is out of place, it's easy to [move messages](",
             "{move_content_another_topic_help_url}", "),",
             NL, "[rename](", "{rename_topic_help_url}", ") and [split](",
             "{move_content_another_topic_help_url}", ") topics,",
             NL, "or even move a topic [to a different channel](",
             "{move_content_another_channel_help_url}", ").", NL>>,
           ("{move_content_another_topic_help_url}" :> <<"/help/move-content-to-another-topic">>)
           @@ ("{rename_topic_help_url}" :> <<"/help/rename-a-topic">>)
           @@ ("{move_content_another_channel_help_url}" :>
                   <<"/help/move-content-to-another-channel">>))

content2_of_moving_messages_topic_name ==
    <<NL, ":point_right: Try moving this message to another topic and back.", NL>>

content1_of_welcome_to_zulip_topic_name ==
    Format(<<NL, "Zulip is organized to help you communicate more efficiently. Conversations are",
             NL, "labeled with topics, which summarize what the conversation is about.",
             NL, NL, "For example, this message is in the '", "{topic_name}", "' topic in the",
             NL, "#**", "{zulip_discussion_channel_name}",
             "** channel, as you can see in the left sidebar",
             NL, "and above.", NL>>,
           ("{zulip_discussion_channel_name}" :> <<ZULIP_DISCUSSION_CHANNEL_NAME>>)
           @@ ("{topic_name}" :> <<"welcome to Zulip!">>))

content2_of_welcome_to_zulip_topic_name ==
    <<NL, "You can read Zulip one conversation at a time, seeing each message in context,",
      NL, "no matter how many other conversations are going on.", NL>>

content3_of_welcome_to_zulip_topic_name ==
    <<NL, ":point_right: When you're ready, check out your [Inbox](/#inbox) for other",
      NL, "conversations with unread messages.", NL>>

content1_of_start_conversation_topic_name ==
    <<NL, "To kick off a new conversation, click **Start new conversation** below.",
      NL, "The new conversation thread will be labeled with its own topic.", NL>>

content2_of_start_conversation_topic_name ==
    <<NL, "For a good topic name, think about finishing the sentence: 'Hey, can we chat about...?'",
      NL>>

content3_of_start_conversation_topic_name ==
    <<NL, ":point_right: Try starting a new conversation in this channel.", NL>>

content1_of_experiments_topic_name ==
    Format(<<NL, ":point_right:  Use this topic to try out [Zulip's messaging features](",
             "{format_message_help_url}", ").", NL>>,
           "{format_message_help_url}" :> <<"/help/format-your-message-using-markdown">>)

content2_of_experiments_topic_name ==
    Format(<<NL, Backtick, Backtick, Backtick, "spoiler Want to see some examples?",
             NL, NL, Backtick, Backtick, Backtick, Backtick, "python",
             NL, "print(\"code blocks\")",
             NL, Backtick, Backtick, Backtick, Backtick,
             NL, NL, "- ", "bulleted",
             NL, "- ", "lists",
             NL, NL, "Link to a conversation: #**", "{zulip_discussion_channel_name}", ">",
             "{topic_name}", "**",
             NL, Backtick, Backtick, Backtick, NL>>,
           ("{zulip_discussion_channel_name}" :> <<ZULIP_DISCUSSION_CHANNEL_NAME>>)
           @@ ("{topic_name}" :> <<"welcome to Zulip!">>))

content1_of_greetings_topic_name ==
    <<NL, "This **greetings** topic is a great place to say 'hi' :wave: to your teammates.", NL>>

content2_of_greetings_topic_name ==
    <<NL, ":point_right: Click on this message to start a new message in the same conversation.",
      NL>>

\* welcome_messages += [{...} for content in contents]
Declare(channel_name, topic_name, contents) ==
    [i \in 1..Len(contents) |->
        [channel_name |-> channel_name, topic_name |-> topic_name, content |-> contents[i]]]

\* Faulty variant: no message is declared for the sandbox channel.
welcome_messages_without_sandbox ==
    Declare(ZULIP_DISCUSSION_CHANNEL_NAME, "moving messages",
            <<content1_of_moving_messages_topic_name, content2_of_moving_messages_topic_name>>)
    \o Declare(DEFAULT_NOTIFICATION_STREAM_NAME, "greetings",
            <<content1_of_greetings_topic_name, content2_of_greetings_topic_name>>)
    \o Declare(ZULIP_DISCUSSION_CHANNEL_NAME, "welcome to Zulip!",
            <<content1_of_welcome_to_zulip_topic_name,
              content2_of_welcome_to_zulip_topic_name,
              content3_of_welcome_to_zulip_topic_name>>)

\* The declared messages, in the order they are sent; the main welcome topic last.
welcome_messages ==
    Declare(ZULIP_DISCUSSION_CHANNEL_NAME, "moving messages",
            <<content1_of_moving_messages_topic_name, content2_of_moving_messages_topic_name>>)
    \o Declare(ZULIP_SANDBOX_CHANNEL_NAME, "experiments",
            <<content1_of_experiments_topic_name, content2_of_experiments_topic_name>>)
    \o Declare(ZULIP_SANDBOX_CHANNEL_NAME, "start a conversation",
            <<content1_of_start_conversation_topic_name,
              content2_of_start_conversation_topic_name,
              content3_of_start_conversation_topic_name>>)
    \o Declare(DEFAULT_NOTIFICATION_STREAM_NAME, "greetings",
            <<content1_of_greetings_topic_name, content2_of_greetings_topic_name>>)
    \o Declare(ZULIP_DISCUSSION_CHANNEL_NAME, "welcome to Zulip!",
            <<content1_of_welcome_to_zulip_topic_name,
              content2_of_welcome_to_zulip_topic_name,
              content3_of_welcome_to_zulip_topic_name>>)

\* zerver.actions.message_send.internal_prep_stream_message_by_name
internal_prep_stream_message_by_name(realm, sender, channel_name, topic_name, content) ==
    [realm |-> realm,
     sender |-> sender.email,
     recipient |-> ChannelRecipient(channel_name),
     topic |-> topic_name,
     content |-> content,
     disable_external_notifications |-> FALSE]

\* zerver.actions.message_send.do_send_messages: the rows, in the order of the
\* requests, with consecutive ids of the table's sequence.
do_send_messages(requests) ==
    [i \in 1..Len(requests) |->
        [id |-> next_message_id + i - 1,
         realm |-> requests[i].realm,
         sender |-> requests[i].sender,
         recipient |-> requests[i].recipient,
         topic |-> requests[i].topic,
         content |-> requests[i].content,
         disable_external_notifications |-> requests[i].disable_external_notifications]]

\* Calls of send_initial_realm_messages that have sent their messages
SeedSends == (next_message_id - 1) \div Len(welcome_messages)

Tables ==
    [messages |-> messages,
     onboarding_user_messages |-> onboarding_user_messages,
     reactions |-> reactions]

\* @transaction.atomic: the call begins a transaction.
BeginSeed(realm) ==
    /\ pc = "idle"
    /\ realm \in DOMAIN realms
    /\ SeedSends < MaxSeedCalls
    /\ pc' = "send"
    /\ txn' = [realm |-> realm,
               welcome_bot |-> get_system_bot(WELCOME_BOT, realm),
               snapshot |-> Tables,
               message_ids |-> <<>>,
               greetings_message |-> None,
               locked |-> {}]
    /\ UNCHANGED <<realms, users, realm_internal_bots, last_repair, messages,
                   next_message_id, onboarding_user_messages, reactions, typed,
                   send_request, response>>

\* messages = [internal_prep_stream_message_by_name(...) for message in welcome_messages]
\* message_ids = [result.message_id for result in do_send_messages(messages)]
SendSeedMessages ==
    /\ pc = "send"
    /\ LET requests == [i \in 1..Len(welcome_messages) |->
                           internal_prep_stream_message_by_name(
                               txn.realm, txn.welcome_bot,
                               welcome_messages[i].channel_name,
                               welcome_messages[i].topic_name,
                               remove_single_newlines(welcome_messages[i].content))]
           sent == do_send_messages(requests)
       IN  /\ messages' = messages \o sent
           /\ next_message_id' = next_message_id + Len(sent)
           /\ txn' = [txn EXCEPT !.message_ids = [i \in 1..Len(sent) |-> sent[i].id]]
    /\ pc' = "mark"
    /\ UNCHANGED <<realms, users, realm_internal_bots, last_repair,
                   onboarding_user_messages, reactions, typed, send_request, response>>

\* Faulty variant: the loop never adds to seen_topics.
RECURSIVE FirstIdsLoopNoSeen(_, _, _, _)
FirstIdsLoopNoSeen(index, message_ids, seen_topics, first_ids) ==
    IF index > Len(welcome_messages) THEN first_ids
    ELSE LET topic_name == welcome_messages[index].topic_name
         IN  IF topic_name \notin seen_topics
             THEN FirstIdsLoopNoSeen(index + 1, message_ids, seen_topics,
                                     first_ids \cup {message_ids[index]})
             ELSE FirstIdsLoopNoSeen(index + 1, message_ids, seen_topics, first_ids)

\* The loop that collects onboarding_topics_first_message_ids
RECURSIVE FirstIdsLoop(_, _, _, _)
FirstIdsLoop(index, message_ids, seen_topics, first_ids) ==
    IF index > Len(welcome_messages) THEN first_ids
    ELSE LET topic_name == welcome_messages[index].topic_name
         IN  IF topic_name \notin seen_topics
             THEN FirstIdsLoop(index + 1, message_ids, seen_topics \cup {topic_name},
                               first_ids \cup {message_ids[index]})
             ELSE FirstIdsLoop(index + 1, message_ids, seen_topics, first_ids)

\* Faulty variant of onboarding_topics_first_message_ids, by the loop above.
onboarding_topics_first_message_ids_no_seen(message_ids) ==
    FirstIdsLoopNoSeen(1, message_ids, {}, {})

onboarding_topics_first_message_ids(message_ids) ==
    FirstIdsLoop(1, message_ids, {}, {})

\* Faulty variant: the historical flag is set together with starred only.
OnboardingRowNotHistorical(realm, message_id, first_ids) ==
    [realm |-> realm,
     message_id |-> message_id,
     flags |-> IF message_id \in first_ids THEN {"historical", "starred"} ELSE {}]

\* OnboardingUserMessage(realm=realm, message_id=message_id, flags=flags)
OnboardingRow(realm, message_id, first_ids) ==
    [realm |-> realm,
     message_id |-> message_id,
     flags |-> {"historical"} \cup (IF message_id \in first_ids THEN {"starred"} ELSE {})]

\* OnboardingUserMessage.objects.bulk_create(onboarding_user_messages)
BulkCreateOnboardingUserMessages ==
    /\ pc = "mark"
    /\ LET first_ids == onboarding_topics_first_message_ids(txn.message_ids)
       IN  onboarding_user_messages' =
               onboarding_user_messages \o
                   [i \in 1..Len(txn.message_ids) |->
                       OnboardingRow(txn.realm, txn.message_ids[i], first_ids)]
    /\ pc' = "find"
    /\ UNCHANGED <<realms, users, realm_internal_bots, last_repair, messages,
                   next_message_id, reactions, typed, send_request, response, txn>>

\* QuerySet.first(): the row with the least id, or None
First(rows) ==
    IF rows = {} THEN None
    ELSE CHOOSE m \in rows : \A other \in rows : m.id <= other.id

InSeq(s, x) == \E i \in 1..Len(s) : s[i] = x
Rows(table) == {table[i] : i \in 1..Len(table)}

\* Faulty variant: the lookup is by the second greetings content.
GreetingsQuerySecondContent(message_ids) ==
    First({m \in Rows(messages) :
              /\ InSeq(message_ids, m.id)
              /\ m.content = remove_single_newlines(content2_of_greetings_topic_name)})

\* Message.objects.select_for_update().filter(id__in=message_ids, content=...).first()
GreetingsQuery(message_ids) ==
    First({m \in Rows(messages) :
              /\ InSeq(message_ids, m.id)
              /\ m.content = remove_single_newlines(content1_of_greetings_topic_name)})

\* Faulty variant: no atomic block, what was written stays.
RollbackKeepsWrites ==
    UNCHANGED <<messages, onboarding_user_messages, reactions>>

\* An exception leaves the atomic block: what the transaction wrote is undone.
Rollback ==
    /\ messages' = txn.snapshot.messages
    /\ onboarding_user_messages' = txn.snapshot.onboarding_user_messages
    /\ reactions' = txn.snapshot.reactions

\* The greetings message is fetched under a row lock; assert it was found.
FindGreetingsMessage ==
    /\ pc = "find"
    /\ LET greetings_message == GreetingsQuery(txn.message_ids)
       IN  IF greetings_message = None
           THEN /\ Rollback
                /\ pc' = "failed"
                /\ UNCHANGED txn
           ELSE /\ txn' = [txn EXCEPT !.greetings_message = greetings_message,
                                      !.locked = {greetings_message.id}]
                /\ pc' = "react"
                /\ UNCHANGED <<messages, onboarding_user_messages, reactions>>
    /\ UNCHANGED <<realms, users, realm_internal_bots, last_repair,
                   next_message_id, typed, send_request, response>>

\* zerver.lib.emoji.get_emoji_data(realm.id, "wave")
get_emoji_data(realm_id, emoji_name) ==
    [emoji_code |-> "1f44b", reaction_type |-> "unicode_emoji"]

\* zerver.actions.reactions.do_add_reaction: one Reaction row
do_add_reaction(user_profile, message, emoji_name, emoji_code, reaction_type) ==
    [user_profile |-> user_profile.email,
     realm |-> user_profile.realm,
     message_id |-> message.id,
     emoji_name |-> emoji_name,
     emoji_code |-> emoji_code,
     reaction_type |-> reaction_type]

\* The reaction is added, the function returns and the transaction commits.
AddWaveReaction ==
    /\ pc = "react"
    /\ LET emoji_data == get_emoji_data(txn.realm, "wave")
       IN  reactions' = reactions \cup
               {do_add_reaction(txn.welcome_bot, txn.greetings_message, "wave",
                                emoji_data.emoji_code, emoji_data.reaction_type)}
    /\ pc' = "done"
    /\ txn' = [txn EXCEPT !.locked = {}]
    /\ UNCHANGED <<realms, users, realm_internal_bots, last_repair, messages,
                   next_message_id, onboarding_user_messages, typed, send_request,
                   response>>

\* The messaging backend raises in the step the call is about to take.
BackendFailure ==
    /\ pc \in {"send", "mark", "find", "react"}
    /\ Rollback
    /\ pc' = "failed"
    /\ txn' = [txn EXCEPT !.locked = {}]
    /\ UNCHANGED <<realms, users, realm_internal_bots, last_repair,
                   next_message_id, typed, send_request, response>>

\* The caller goes on after the call returned or raised.
ReturnFromSeed ==
    /\ pc \in {"done", "failed"}
    /\ pc' = "idle"
    /\ txn' = None
    /\ UNCHANGED <<realms, users, realm_internal_bots, last_repair, messages,
                   next_message_id, onboarding_user_messages, reactions, typed,
                   send_request, response>>

InitSeed ==
    /\ \E ids \in SUBSET RealmIds : ids # {} /\ realms = [r \in ids |-> DefaultRealm]
    /\ users = {}
    /\ realm_internal_bots = {}
    /\ last_repair = NoRepair
    /\ messages = <<>>
    /\ next_message_id = 1
    /\ onboarding_user_messages = <<>>
    /\ reactions = {}
    /\ typed = <<>>
    /\ send_request = None
    /\ response = None
    /\ pc = "idle"
    /\ txn = None

NextSeed ==
    \/ \E realm \in RealmIds : BeginSeed(realm)
    \/ SendSeedMessages
    \/ BulkCreateOnboardingUserMessages
    \/ FindGreetingsMessage
    \/ AddWaveReaction
    \/ BackendFailure
    \/ ReturnFromSeed

SpecSeed == InitSeed /\ [][NextSeed]_vars

\* What the call in progress has added to the tables
NewMessages == SubSeq(messages, Len(txn.snapshot.messages) + 1, Len(messages))
NewRows ==
    SubSeq(onboarding_user_messages, Len(txn.snapshot.onboarding_user_messages) + 1,
           Len(onboarding_user_messages))
NewReactions == reactions \ txn.snapshot.reactions

IsFirstInTopic(i) ==
    \A j \in 1..(i - 1) : welcome_messages[j].topic_name # welcome_messages[i].topic_name

DeclaredTopics == {welcome_messages[i].topic_name : i \in 1..Len(welcome_messages)}

StarredIndexes ==
    {i \in 1..Len(txn.message_ids) :
        \E k \in 1..Len(NewRows) :
            NewRows[k].message_id = txn.message_ids[i] /\ "starred" \in NewRows[k].flags}

\* C2: a successful call stores one message per declared triple, the i-th
\* message id being the i-th triple's message (its content with the single
\* newlines removed), in increasing id order; and in each topic exactly one
\* message is starred, the first sent in it.
C2_OneMessagePerTriple ==
    pc = "done" =>
        /\ Len(NewMessages) = Len(welcome_messages)
        /\ Len(txn.message_ids) = Len(welcome_messages)
        /\ \A i \in 1..Len(NewMessages) :
               /\ NewMessages[i].id = txn.message_ids[i]
               /\ NewMessages[i].realm = txn.realm
               /\ NewMessages[i].sender = WELCOME_BOT
               /\ NewMessages[i].recipient =
                      [type |-> "channel", to |-> welcome_messages[i].channel_name]
               /\ NewMessages[i].topic = welcome_messages[i].topic_name
               /\ NewMessages[i].content =
                      remove_single_newlines(welcome_messages[i].content)
               /\ \A j \in 1..(i - 1) : txn.message_ids[j] < txn.message_ids[i]
        /\ \A topic \in DeclaredTopics :
               {i \in StarredIndexes : welcome_messages[i].topic_name = topic}
                   = {i \in 1..Len(welcome_messages) :
                         welcome_messages[i].topic_name = topic /\ IsFirstInTopic(i)}
        /\ Cardinality(StarredIndexes) = Cardinality(DeclaredTopics)

\* The first call on a realm committed: twelve messages, the last of them in
\* the main welcome topic, five of them starred.
C2_Witness ==
    /\ pc = "done"
    /\ txn.snapshot.messages = <<>>
    /\ Len(messages) = 12
    /\ messages[12].topic = "welcome to Zulip!"
    /\ Cardinality(StarredIndexes) = 5

\* C3: the call is atomic: when a step fails, the tables are what they were
\* before the call; when it succeeds, the messages, the marker rows and the
\* reaction are all there, after what was there before.
C3_Atomic ==
    /\ pc = "send" => Tables = txn.snapshot
    /\ pc = "failed" => Tables = txn.snapshot
    /\ pc = "done" =>
           /\ SubSeq(messages, 1, Len(txn.snapshot.messages)) = txn.snapshot.messages
           /\ Len(NewMessages) = Len(welcome_messages)
           /\ SubSeq(onboarding_user_messages, 1, Len(txn.snapshot.onboarding_user_messages))
                  = txn.snapshot.onboarding_user_messages
           /\ Len(NewRows) = Len(welcome_messages)
           /\ txn.snapshot.reactions \subseteq reactions
           /\ Cardinality(NewReactions) = 1

\* A second call failed in its last step, after its messages were sent, its
\* rows created and its greetings message found, and the tables hold the
\* first call's rows only.
C3_Witness ==
    /\ pc = "failed"
    /\ txn.greetings_message # None
    /\ Len(txn.message_ids) = 12
    /\ Len(txn.snapshot.messages) = 12
    /\ Len(messages) = 12
    /\ Cardinality(reactions) = 1

\* C7: after a successful call every default channel of the realm holds a
\* message the call sent.
C7_EveryDefaultChannelSeeded ==
    pc = "done" =>
        \A channel_name \in DefaultChannels :
            \E i \in 1..Len(NewMessages) :
                /\ NewMessages[i].realm = txn.realm
                /\ NewMessages[i].recipient = [type |-> "channel", to |-> channel_name]

\* Realm r2 was seeded: its sandbox and notifications channels hold messages.
C7_Witness ==
    /\ pc = "done"
    /\ txn.realm = "r2"
    /\ \E i, j \in 1..Len(messages) :
           /\ messages[i].realm = "r2" /\ messages[i].recipient.to = ZULIP_SANDBOX_CHANNEL_NAME
           /\ messages[j].realm = "r2"
           /\ messages[j].recipient.to = DEFAULT_NOTIFICATION_STREAM_NAME

\* C8: after a successful call there is exactly one marker row for each
\* message the call sent, the call created no other row, every such row is the
\* seeded realm's and historical, and a row is starred only if its message is
\* the first sent in its topic.
C8_MarkerRows ==
    pc = "done" =>
        /\ Len(NewRows) = Len(txn.message_ids)
        /\ \A i \in 1..Len(txn.message_ids) :
               Cardinality({k \in 1..Len(onboarding_user_messages) :
                   onboarding_user_messages[k].message_id = txn.message_ids[i]}) = 1
        /\ \A k \in 1..Len(NewRows) :
               /\ \E i \in 1..Len(txn.message_ids) :
                      /\ NewRows[k].message_id = txn.message_ids[i]
                      /\ "starred" \in NewRows[k].flags => IsFirstInTopic(i)
               /\ NewRows[k].realm = txn.realm
               /\ "historical" \in NewRows[k].flags
               /\ NewRows[k].flags \subseteq {"historical", "starred"}
        /\ SubSeq(onboarding_user_messages, 1, Len(txn.snapshot.onboarding_user_messages))
               = txn.snapshot.onboarding_user_messages

\* A second call committed beside the rows of the first: its first row is
\* starred and historical, its second historical only.
C8_Witness ==
    /\ pc = "done"
    /\ Len(onboarding_user_messages) = 24
    /\ onboarding_user_messages[13].flags = {"historical", "starred"}
    /\ onboarding_user_messages[14].flags = {"historical"}
    /\ onboarding_user_messages[13].message_id \notin
           {onboarding_user_messages[k].message_id : k \in 1..12}

GreetingsIndex ==
    CHOOSE i \in 1..Len(welcome_messages) :
        welcome_messages[i].topic_name = "greetings" /\ IsFirstInTopic(i)

ReactionsOnSent == {r \in reactions : InSeq(txn.message_ids, r.message_id)}

\* C9: the reaction step is the last one: until every message is sent and
\* every marker row created there is neither a lookup nor a reaction; the
\* greetings message is then found, locked, among the call's messages by its
\* content; and the call ends with exactly one reaction on its messages, the
\* welcome bot's wave on the first message of the greetings topic.
C9_ReactionLast ==
    /\ pc \in {"send", "mark", "find"} =>
           /\ txn.greetings_message = None
           /\ txn.locked = {}
           /\ ReactionsOnSent = {}
    /\ pc = "react" =>
           /\ Len(NewMessages) = Len(welcome_messages)
           /\ Len(NewRows) = Len(welcome_messages)
           /\ ReactionsOnSent = {}
           /\ txn.greetings_message # None
           /\ txn.greetings_message.id = txn.message_ids[GreetingsIndex]
           /\ txn.greetings_message.content =
                  remove_single_newlines(content1_of_greetings_topic_name)
           /\ txn.locked = {txn.greetings_message.id}
    /\ pc = "done" =>
           /\ Cardinality(ReactionsOnSent) = 1
           /\ NewReactions = ReactionsOnSent
           /\ \A r \in ReactionsOnSent :
                  /\ r.user_profile = WELCOME_BOT
                  /\ r.emoji_name = "wave"
                  /\ r.message_id = txn.message_ids[GreetingsIndex]
                  /\ r.message_id = NewMessages[GreetingsIndex].id
                  /\ NewMessages[GreetingsIndex].topic = "greetings"

\* A second call on a realm, whose table already holds a greetings message of
\* the same content, reacted to its own greetings message.
C9_Witness ==
    /\ pc = "done"
    /\ Cardinality(reactions) = 2
    /\ \E i \in 1..Len(txn.snapshot.messages) :
           /\ txn.snapshot.messages[i].content = txn.greetings_message.content
           /\ txn.snapshot.messages[i].realm = txn.realm
    /\ \E r \in reactions : r.message_id = txn.greetings_message.id

====
